---- MODULE Spec2Model ----
(***************************************************************************)
(* Model of threaded_loading_dialog.py: TaskWorkerThread (a QThread that   *)
(* runs a queue of tasks in order) and ThreadedLoadingDialog (the dialog   *)
(* that owns the worker and handles its signals on the UI thread).         *)
(*                                                                         *)
(* Two threads are modelled.  The worker thread executes run() one         *)
(* statement group at a time (workers[w].pc).  The UI thread runs the Qt   *)
(* event loop: signals emitted by run() on the worker thread reach the     *)
(* dialog's slots through queued connections, i.e. they are appended to    *)
(* uiQueue and handled later, in FIFO order, by the UI thread.  The UI     *)
(* thread handles nothing while it is blocked in QThread.wait().           *)
(*                                                                         *)
(* A task's operation either returns a value or raises an Exception; a     *)
(* descriptor may lack its 'function' or its 'description' key.            *)
(***************************************************************************)
EXTENDS Integers, Sequences, FiniteSets, TLC

VARIABLES
    dlg,       \* the fields of the ThreadedLoadingDialog
    workers,   \* the TaskWorkerThread objects created so far, in creation order
    uiQueue,   \* signals posted to the UI thread and not yet handled
    uipc,      \* position of the UI thread: "idle", "cancel_checked", "waiting"
    timers,    \* pending QTimer.singleShot calls
    uiLog,     \* history: what the UI thread has done, in order
    startLog   \* history: one entry per call of start()

vars == <<dlg, workers, uiQueue, uipc, timers, uiLog, startLog>>

----------------------------------------------------------------------------
(* Bounds *)

MaxTasks == 2

----------------------------------------------------------------------------
(* Task descriptors and operations *)

\* a key that the descriptor dict does not have
NoKey == "<missing>"

\* the initial value of the local variable func in run()
NoneFunc == "None"

\* what calling an operation does: return a value or raise an Exception
OpBehaviour ==
    [opA |-> [raises |-> FALSE, value |-> 1, text |-> ""],
     opB |-> [raises |-> FALSE, value |-> 2, text |-> ""],
     opF |-> [raises |-> TRUE,  value |-> 0, text |-> "boom"]]

TaskPool ==
    { [function |-> "opA", description |-> "load a"],
      [function |-> "opB", description |-> NoKey],
      [function |-> "opF", description |-> "load f"],
      [function |-> NoKey, description |-> "load m"] }

RECURSIVE SeqsUpTo(_, _)
SeqsUpTo(S, n) ==
    IF n = 0 THEN { <<>> }
    ELSE LET shorter == SeqsUpTo(S, n - 1)
         IN  shorter \cup { Append(q, t) : q \in { s \in shorter : Len(s) = n - 1 }, t \in S }

TaskQueues == SeqsUpTo(TaskPool, MaxTasks)

AutoCloseDelays == {800, 1500}

----------------------------------------------------------------------------
(* Signals *)

Ev(sig, idx, total, text, data) ==
    [sig |-> sig, idx |-> idx, total |-> total, text |-> text, data |-> data]

\* the five signals declared by TaskWorkerThread
WorkerSignals == {"task_started", "task_completed", "all_completed", "error", "progress"}

\* self.<signal>.emit(...) inside run(): the dialog's slots live on the UI
\* thread, so the call is posted to the UI thread's event queue
Posted(w, e) == Append(uiQueue, [w |-> w, ev |-> e])

\* markers kept in a worker's trace next to the signals it emitted
OpCall(i)   == Ev("op_call", i, 0, "", <<>>)
OpReturn(i) == Ev("op_return", i, 0, "", <<>>)
OpRaise(i)  == Ev("op_raise", i, 0, "", <<>>)

----------------------------------------------------------------------------
(* Construction *)

\* TaskWorkerThread.__init__
NewWorker(tasks) ==
    [tasks |-> tasks, cancelled |-> FALSE, results |-> <<>>,
     pc |-> "loop", i |-> 0, func |-> NoneFunc, exc |-> "",
     running |-> TRUE,
     trace |-> <<>>,        \* history: signals emitted and operations called
     cancelPos |-> -1,      \* history: Len(trace) when cancel() set the flag
     cancelPc |-> "",       \* history: pc when cancel() set the flag
     cancelI |-> -1,        \* history: loop index when cancel() set the flag
     observed |-> FALSE]    \* history: run() returned at a cancellation check

\* ThreadedLoadingDialog.__init__ and _setup_ui; tasks is the constructor
\* argument (tasks or [])
NewDialog(tasks) ==
    [tasks |-> tasks, worker_thread |-> 0,
     on_complete_callback |-> FALSE, on_error_callback |-> FALSE,
     auto_close_on_complete |-> TRUE, auto_close_delay |-> 800,
     status_label |-> "Initializing...",
     bar_max |-> 0, bar_value |-> 0, bar_text |-> FALSE, bar_style |-> "",
     info_label |-> "This may take a few moments...",
     cancel_button |-> "Cancel",
     visible |-> FALSE, result |-> "none"]

Init ==
    /\ \E q \in TaskQueues : dlg = NewDialog(q)
    /\ workers = <<>>
    /\ uiQueue = <<>>
    /\ uipc = "idle"
    /\ timers = <<>>
    /\ uiLog = <<>>
    /\ startLog = <<>>

----------------------------------------------------------------------------
(* TaskWorkerThread.run, on the worker thread *)

NumTasks(w) == Len(workers[w].tasks)

\* the task the loop is at (enumerate index i, 0-based)
CurTask(w) == workers[w].tasks[workers[w].i + 1]

\* task.get('description', f'Task {i+1}')
Description(task, i) ==
    IF task.description = NoKey THEN "Task " \o ToString(i + 1) ELSE task.description

\* f"Error:{str(func)} {str(e)}"
ErrorMessage(func, exc) == "Error:" \o func \o " " \o exc

\* as RunNextTask, leaving the loop (break) where the code returns
RunNextTask_Break(w) ==
    /\ workers[w].pc = "loop"
    /\ workers[w].i < NumTasks(w)
    /\ workers' = [workers EXCEPT
            ![w].pc = IF workers[w].cancelled THEN "emit_final_progress" ELSE "emit_started",
            ![w].observed = workers[w].cancelled]
    /\ UNCHANGED <<dlg, uiQueue, uipc, timers, uiLog, startLog>>

\* as RunNextTask, without the check of the flag
RunNextTask_NoCheck(w) ==
    /\ workers[w].pc = "loop"
    /\ workers[w].i < NumTasks(w)
    /\ workers' = [workers EXCEPT ![w].pc = "emit_started"]
    /\ UNCHANGED <<dlg, uiQueue, uipc, timers, uiLog, startLog>>

\* for i, task in enumerate(self.tasks): if self._is_cancelled: return
RunNextTask(w) ==
    /\ workers[w].pc = "loop"
    /\ workers[w].i < NumTasks(w)
    /\ workers' = [workers EXCEPT
            ![w].pc = IF workers[w].cancelled THEN "returned" ELSE "emit_started",
            ![w].observed = workers[w].cancelled]
    /\ UNCHANGED <<dlg, uiQueue, uipc, timers, uiLog, startLog>>

\* as RunLoopExit, with a cancellation check after the loop
RunLoopExit_ChecksFlag(w) ==
    /\ workers[w].pc = "loop"
    /\ workers[w].i = NumTasks(w)
    /\ workers' = [workers EXCEPT
            ![w].pc = IF workers[w].cancelled THEN "returned" ELSE "emit_final_progress",
            ![w].observed = workers[w].cancelled]
    /\ UNCHANGED <<dlg, uiQueue, uipc, timers, uiLog, startLog>>

\* the for loop is exhausted
RunLoopExit(w) ==
    /\ workers[w].pc = "loop"
    /\ workers[w].i = NumTasks(w)
    /\ workers' = [workers EXCEPT ![w].pc = "emit_final_progress"]
    /\ UNCHANGED <<dlg, uiQueue, uipc, timers, uiLog, startLog>>

\* self.task_started.emit(i, description)
RunEmitTaskStarted(w) ==
    /\ workers[w].pc = "emit_started"
    /\ LET e == Ev("task_started", workers[w].i, 0,
                   Description(CurTask(w), workers[w].i), <<>>)
       IN  /\ uiQueue' = Posted(w, e)
           /\ workers' = [workers EXCEPT ![w].pc = "emit_progress",
                                         ![w].trace = Append(@, e)]
    /\ UNCHANGED <<dlg, uipc, timers, uiLog, startLog>>

\* as RunEmitProgress, counting the tasks from 1
RunEmitProgress_OneBased(w) ==
    /\ workers[w].pc = "emit_progress"
    /\ LET e == Ev("progress", workers[w].i + 1, NumTasks(w), "", <<>>)
       IN  /\ uiQueue' = Posted(w, e)
           /\ workers' = [workers EXCEPT ![w].pc = "fetch",
                                         ![w].trace = Append(@, e)]
    /\ UNCHANGED <<dlg, uipc, timers, uiLog, startLog>>

\* self.progress.emit(i, total_tasks)
RunEmitProgress(w) ==
    /\ workers[w].pc = "emit_progress"
    /\ LET e == Ev("progress", workers[w].i, NumTasks(w), "", <<>>)
       IN  /\ uiQueue' = Posted(w, e)
           /\ workers' = [workers EXCEPT ![w].pc = "fetch",
                                         ![w].trace = Append(@, e)]
    /\ UNCHANGED <<dlg, uipc, timers, uiLog, startLog>>

\* func = task['function'] (KeyError when the key is missing), then
\* func(*args, **kwargs) is called: the operation is in flight
RunCallOperation(w) ==
    /\ workers[w].pc = "fetch"
    /\ IF CurTask(w).function = NoKey
       THEN workers' = [workers EXCEPT ![w].pc = "except",
                                       ![w].exc = "'function'"]
       ELSE workers' = [workers EXCEPT ![w].pc = "in_flight",
                                       ![w].func = CurTask(w).function,
                                       ![w].trace = Append(@, OpCall(workers[w].i))]
    /\ UNCHANGED <<dlg, uiQueue, uipc, timers, uiLog, startLog>>

\* as RunOperationReturns, inserting the result at the front
RunOperationReturns_Prepend(w) ==
    /\ workers[w].pc = "in_flight"
    /\ ~OpBehaviour[workers[w].func].raises
    /\ workers' = [workers EXCEPT
            ![w].pc = "post_check",
            ![w].results = <<OpBehaviour[workers[w].func].value>> \o @,
            ![w].trace = Append(@, OpReturn(workers[w].i))]
    /\ UNCHANGED <<dlg, uiQueue, uipc, timers, uiLog, startLog>>

\* as RunOperationReturns, dropping the returned value
RunOperationReturns_NoAppend(w) ==
    /\ workers[w].pc = "in_flight"
    /\ ~OpBehaviour[workers[w].func].raises
    /\ workers' = [workers EXCEPT
            ![w].pc = "post_check",
            ![w].trace = Append(@, OpReturn(workers[w].i))]
    /\ UNCHANGED <<dlg, uiQueue, uipc, timers, uiLog, startLog>>

\* the operation returns: self.results.append(result)
RunOperationReturns(w) ==
    /\ workers[w].pc = "in_flight"
    /\ ~OpBehaviour[workers[w].func].raises
    /\ workers' = [workers EXCEPT
            ![w].pc = "post_check",
            ![w].results = Append(@, OpBehaviour[workers[w].func].value),
            ![w].trace = Append(@, OpReturn(workers[w].i))]
    /\ UNCHANGED <<dlg, uiQueue, uipc, timers, uiLog, startLog>>

\* as RunOperationRaises, recording an empty result for the failed operation
RunOperationRaises_AppendsNone(w) ==
    /\ workers[w].pc = "in_flight"
    /\ OpBehaviour[workers[w].func].raises
    /\ workers' = [workers EXCEPT
            ![w].pc = "except",
            ![w].exc = OpBehaviour[workers[w].func].text,
            ![w].results = Append(@, OpBehaviour[workers[w].func].value),
            ![w].trace = Append(@, OpRaise(workers[w].i))]
    /\ UNCHANGED <<dlg, uiQueue, uipc, timers, uiLog, startLog>>

\* the operation raises an Exception: control goes to the except clause
RunOperationRaises(w) ==
    /\ workers[w].pc = "in_flight"
    /\ OpBehaviour[workers[w].func].raises
    /\ workers' = [workers EXCEPT
            ![w].pc = "except",
            ![w].exc = OpBehaviour[workers[w].func].text,
            ![w].trace = Append(@, OpRaise(workers[w].i))]
    /\ UNCHANGED <<dlg, uiQueue, uipc, timers, uiLog, startLog>>

\* as RunPostCheck, leaving the loop (break) where the code returns
RunPostCheck_Break(w) ==
    /\ workers[w].pc = "post_check"
    /\ workers' = [workers EXCEPT
            ![w].pc = IF workers[w].cancelled THEN "emit_final_progress" ELSE "emit_completed",
            ![w].observed = workers[w].cancelled]
    /\ UNCHANGED <<dlg, uiQueue, uipc, timers, uiLog, startLog>>

\* as RunPostCheck, clearing the flag when it has been seen
RunPostCheck_ClearsFlag(w) ==
    /\ workers[w].pc = "post_check"
    /\ workers' = [workers EXCEPT
            ![w].pc = IF workers[w].cancelled THEN "returned" ELSE "emit_completed",
            ![w].observed = workers[w].cancelled,
            ![w].cancelled = FALSE]
    /\ UNCHANGED <<dlg, uiQueue, uipc, timers, uiLog, startLog>>

\* if self._is_cancelled: return   (after the operation returned)
RunPostCheck(w) ==
    /\ workers[w].pc = "post_check"
    /\ workers' = [workers EXCEPT
            ![w].pc = IF workers[w].cancelled THEN "returned" ELSE "emit_completed",
            ![w].observed = workers[w].cancelled]
    /\ UNCHANGED <<dlg, uiQueue, uipc, timers, uiLog, startLog>>

\* as RunEmitTaskCompleted, emitted for the wrong index
RunEmitTaskCompleted_OffByOne(w) ==
    /\ workers[w].pc = "emit_completed"
    /\ LET e == Ev("task_completed", workers[w].i + 1, 0, "", <<>>)
       IN  /\ uiQueue' = Posted(w, e)
           /\ workers' = [workers EXCEPT ![w].pc = "loop",
                                         ![w].i = @ + 1,
                                         ![w].trace = Append(@, e)]
    /\ UNCHANGED <<dlg, uipc, timers, uiLog, startLog>>

\* self.task_completed.emit(i), then the loop advances
RunEmitTaskCompleted(w) ==
    /\ workers[w].pc = "emit_completed"
    /\ LET e == Ev("task_completed", workers[w].i, 0, "", <<>>)
       IN  /\ uiQueue' = Posted(w, e)
           /\ workers' = [workers EXCEPT ![w].pc = "loop",
                                         ![w].i = @ + 1,
                                         ![w].trace = Append(@, e)]
    /\ UNCHANGED <<dlg, uipc, timers, uiLog, startLog>>

\* as RunEmitFinalProgress, reporting the index of the last task
RunEmitFinalProgress_LastIndex(w) ==
    /\ workers[w].pc = "emit_final_progress"
    /\ LET e == Ev("progress", NumTasks(w) - 1, NumTasks(w), "", <<>>)
       IN  /\ uiQueue' = Posted(w, e)
           /\ workers' = [workers EXCEPT ![w].pc = "emit_all_completed",
                                         ![w].trace = Append(@, e)]
    /\ UNCHANGED <<dlg, uipc, timers, uiLog, startLog>>

\* self.progress.emit(total_tasks, total_tasks)
RunEmitFinalProgress(w) ==
    /\ workers[w].pc = "emit_final_progress"
    /\ LET e == Ev("progress", NumTasks(w), NumTasks(w), "", <<>>)
       IN  /\ uiQueue' = Posted(w, e)
           /\ workers' = [workers EXCEPT ![w].pc = "emit_all_completed",
                                         ![w].trace = Append(@, e)]
    /\ UNCHANGED <<dlg, uipc, timers, uiLog, startLog>>

\* self.all_completed.emit(self.results); run() returns
RunEmitAllCompleted(w) ==
    /\ workers[w].pc = "emit_all_completed"
    /\ LET e == Ev("all_completed", 0, 0, "", workers[w].results)
       IN  /\ uiQueue' = Posted(w, e)
           /\ workers' = [workers EXCEPT ![w].pc = "returned",
                                         ![w].trace = Append(@, e)]
    /\ UNCHANGED <<dlg, uipc, timers, uiLog, startLog>>

\* as RunEmitError, with the try inside the loop: the next task is run
RunEmitError_Continue(w) ==
    /\ workers[w].pc = "except"
    /\ LET e == Ev("error", 0, 0, ErrorMessage(workers[w].func, workers[w].exc), <<>>)
       IN  /\ uiQueue' = Posted(w, e)
           /\ workers' = [workers EXCEPT ![w].pc = "loop",
                                         ![w].i = @ + 1,
                                         ![w].trace = Append(@, e)]
    /\ UNCHANGED <<dlg, uipc, timers, uiLog, startLog>>

\* except Exception as e: self.error.emit(...); run() returns
RunEmitError(w) ==
    /\ workers[w].pc = "except"
    /\ LET e == Ev("error", 0, 0, ErrorMessage(workers[w].func, workers[w].exc), <<>>)
       IN  /\ uiQueue' = Posted(w, e)
           /\ workers' = [workers EXCEPT ![w].pc = "returned",
                                         ![w].trace = Append(@, e)]
    /\ UNCHANGED <<dlg, uipc, timers, uiLog, startLog>>

\* QThread: after run() returns the thread emits finished and stops running
ThreadFinishes(w) ==
    /\ workers[w].pc = "returned"
    /\ uiQueue' = Posted(w, Ev("finished", 0, 0, "", <<>>))
    /\ workers' = [workers EXCEPT ![w].pc = "finished", ![w].running = FALSE]
    /\ UNCHANGED <<dlg, uipc, timers, uiLog, startLog>>

\* TaskWorkerThread.cancel
Cancel(w) == [workers EXCEPT ![w].cancelled = TRUE,
                             ![w].cancelPos = IF workers[w].cancelled THEN @
                                              ELSE Len(workers[w].trace),
                             ![w].cancelPc = IF workers[w].cancelled THEN @
                                             ELSE workers[w].pc,
                             ![w].cancelI = IF workers[w].cancelled THEN @
                                            ELSE workers[w].i]

----------------------------------------------------------------------------
(* ThreadedLoadingDialog, on the UI thread *)

Log(op, text, data) == [op |-> op, text |-> text, data |-> data]

\* ThreadedLoadingDialog.set_error
set_error(d, error_message) ==
    [d EXCEPT !.status_label = IF error_message # "" THEN error_message ELSE @,
              !.bar_max = 100, !.bar_value = 0, !.bar_style = "red",
              !.info_label = "", !.cancel_button = "Close"]

\* ThreadedLoadingDialog.set_complete
set_complete(d) ==
    [d EXCEPT !.bar_max = 100, !.bar_value = 100, !.bar_style = "green",
              !.status_label = "Processing complete!",
              !.info_label = "Success!", !.cancel_button = "Close"]

\* QDialog.done(r), reached through accept() and reject()
done(d, r) == [d EXCEPT !.visible = FALSE, !.result = r]

\* the caller configures the dialog before it calls start()
Configuring == startLog = <<>>

\* as SetTasks, replacing the contents of the list the worker was given
SetTasks_Shared(q) ==
    /\ uipc = "idle"
    /\ dlg' = [dlg EXCEPT !.tasks = q]
    /\ workers' = [w \in DOMAIN workers |->
                      IF w = dlg.worker_thread
                      THEN [workers[w] EXCEPT !.tasks = q] ELSE workers[w]]
    /\ UNCHANGED <<uiQueue, uipc, timers, uiLog, startLog>>

\* ThreadedLoadingDialog.set_tasks
SetTasks(q) ==
    /\ uipc = "idle"
    /\ dlg' = [dlg EXCEPT !.tasks = q]
    /\ UNCHANGED <<workers, uiQueue, uipc, timers, uiLog, startLog>>

\* ThreadedLoadingDialog.set_on_complete_callback
SetOnCompleteCallback ==
    /\ uipc = "idle"
    /\ dlg' = [dlg EXCEPT !.on_complete_callback = TRUE]
    /\ UNCHANGED <<workers, uiQueue, uipc, timers, uiLog, startLog>>

\* ThreadedLoadingDialog.set_on_error_callback
SetOnErrorCallback ==
    /\ uipc = "idle"
    /\ dlg' = [dlg EXCEPT !.on_error_callback = TRUE]
    /\ UNCHANGED <<workers, uiQueue, uipc, timers, uiLog, startLog>>

\* ThreadedLoadingDialog.set_auto_close
SetAutoClose(enabled, delay) ==
    /\ uipc = "idle"
    /\ dlg' = [dlg EXCEPT !.auto_close_on_complete = enabled,
                          !.auto_close_delay = delay]
    /\ UNCHANGED <<workers, uiQueue, uipc, timers, uiLog, startLog>>

\* as StartEmpty, without the return: the worker is created all the same
StartEmpty_NoReturn ==
    /\ uipc = "idle"
    /\ dlg.tasks = <<>>
    /\ workers' = Append(workers, NewWorker(dlg.tasks))
    /\ dlg' = [set_error(dlg, "No tasks to execute") EXCEPT !.worker_thread = Len(workers) + 1]
    /\ uiLog' = Append(uiLog, Log("set_error", "No tasks to execute", <<>>))
    /\ startLog' = Append(startLog, [empty |-> TRUE, outcome |-> "returned",
                                      worker |-> Len(workers) + 1])
    /\ UNCHANGED <<uiQueue, uipc, timers>>

\* as StartEmpty, reporting the error to the on_error callback as _on_error does
StartEmpty_CallsOnError ==
    /\ uipc = "idle"
    /\ dlg.tasks = <<>>
    /\ dlg' = set_error(dlg, "No tasks to execute")
    /\ uiLog' = LET l1 == Append(uiLog, Log("set_error", "No tasks to execute", <<>>))
                IN  IF dlg.on_error_callback
                    THEN Append(l1, Log("on_error", "No tasks to execute", <<>>)) ELSE l1
    /\ startLog' = Append(startLog, [empty |-> TRUE, outcome |-> "returned", worker |-> 0])
    /\ UNCHANGED <<workers, uiQueue, uipc, timers>>

\* ThreadedLoadingDialog.start with an empty queue
StartEmpty ==
    /\ uipc = "idle"
    /\ dlg.tasks = <<>>
    /\ dlg' = set_error(dlg, "No tasks to execute")
    /\ uiLog' = Append(uiLog, Log("set_error", "No tasks to execute", <<>>))
    /\ startLog' = Append(startLog, [empty |-> TRUE, outcome |-> "returned", worker |-> 0])
    /\ UNCHANGED <<workers, uiQueue, uipc, timers>>

\* as StartWorker, joining the thread it started
StartWorker_Waits ==
    /\ uipc = "idle"
    /\ dlg.tasks # <<>>
    /\ workers' = Append(workers, NewWorker(dlg.tasks))
    /\ dlg' = [dlg EXCEPT !.worker_thread = Len(workers) + 1]
    /\ startLog' = Append(startLog, [empty |-> FALSE, outcome |-> "returned",
                                      worker |-> Len(workers) + 1])
    /\ uipc' = "waiting"
    /\ UNCHANGED <<uiQueue, timers, uiLog>>

\* ThreadedLoadingDialog.start with tasks: a worker is created, its signals
\* are connected and its thread is started
StartWorker ==
    /\ uipc = "idle"
    /\ dlg.tasks # <<>>
    /\ workers' = Append(workers, NewWorker(dlg.tasks))
    /\ dlg' = [dlg EXCEPT !.worker_thread = Len(workers) + 1]
    /\ startLog' = Append(startLog, [empty |-> FALSE, outcome |-> "returned",
                                      worker |-> Len(workers) + 1])
    /\ UNCHANGED <<uiQueue, uipc, timers, uiLog>>

\* the dialog is shown: show(), or exec() inside execute()
Show ==
    /\ uipc = "idle"
    /\ ~dlg.visible
    /\ dlg.result = "none"
    /\ dlg' = [dlg EXCEPT !.visible = TRUE]
    /\ UNCHANGED <<workers, uiQueue, uipc, timers, uiLog, startLog>>

\* the event loop takes the next posted signal
Pending(sig) ==
    /\ uipc = "idle"
    /\ uiQueue # <<>>
    /\ Head(uiQueue).ev.sig = sig

\* ThreadedLoadingDialog._on_task_started
OnTaskStarted ==
    /\ Pending("task_started")
    /\ dlg' = [dlg EXCEPT !.status_label = Head(uiQueue).ev.text]
    /\ uiQueue' = Tail(uiQueue)
    /\ UNCHANGED <<workers, uipc, timers, uiLog, startLog>>

\* ThreadedLoadingDialog._on_task_completed
OnTaskCompleted ==
    /\ Pending("task_completed")
    /\ uiQueue' = Tail(uiQueue)
    /\ UNCHANGED <<dlg, workers, uipc, timers, uiLog, startLog>>

\* ThreadedLoadingDialog._on_progress
OnProgress ==
    /\ Pending("progress")
    /\ LET e == Head(uiQueue).ev
       IN  dlg' = IF e.total > 0
                  THEN [dlg EXCEPT !.bar_max = e.total, !.bar_value = e.idx,
                                   !.bar_text = TRUE]
                  ELSE dlg
    /\ uiQueue' = Tail(uiQueue)
    /\ UNCHANGED <<workers, uipc, timers, uiLog, startLog>>

\* as OnAllCompleted, scheduling the timer before the callback is invoked
OnAllCompleted_TimerFirst ==
    /\ Pending("all_completed")
    /\ LET results == Head(uiQueue).ev.data
           l1 == Append(uiLog, Log("set_complete", "", <<>>))
           l2 == IF dlg.auto_close_on_complete
                 THEN Append(l1, Log("singleShot", "accept", <<>>)) ELSE l1
           l3 == IF dlg.on_complete_callback
                 THEN Append(l2, Log("on_complete", "", results)) ELSE l2
       IN  /\ dlg' = set_complete(dlg)
           /\ uiLog' = l3
           /\ timers' = IF dlg.auto_close_on_complete
                        THEN Append(timers, [delay |-> dlg.auto_close_delay,
                                             slot |-> "accept"])
                        ELSE timers
    /\ uiQueue' = Tail(uiQueue)
    /\ UNCHANGED <<workers, uipc, startLog>>

\* as OnAllCompleted, scheduling the close whether auto-close is enabled or not
OnAllCompleted_AlwaysCloses ==
    /\ Pending("all_completed")
    /\ LET results == Head(uiQueue).ev.data
           l1 == Append(uiLog, Log("set_complete", "", <<>>))
           l2 == IF dlg.on_complete_callback
                 THEN Append(l1, Log("on_complete", "", results)) ELSE l1
       IN  /\ dlg' = set_complete(dlg)
           /\ uiLog' = Append(l2, Log("singleShot", "accept", <<>>))
           /\ timers' = Append(timers, [delay |-> dlg.auto_close_delay,
                                        slot |-> "accept"])
    /\ uiQueue' = Tail(uiQueue)
    /\ UNCHANGED <<workers, uipc, startLog>>

\* ThreadedLoadingDialog._on_all_completed
OnAllCompleted ==
    /\ Pending("all_completed")
    /\ LET results == Head(uiQueue).ev.data
           l1 == Append(uiLog, Log("set_complete", "", <<>>))
           l2 == IF dlg.on_complete_callback
                 THEN Append(l1, Log("on_complete", "", results)) ELSE l1
           l3 == IF dlg.auto_close_on_complete
                 THEN Append(l2, Log("singleShot", "accept", <<>>)) ELSE l2
       IN  /\ dlg' = set_complete(dlg)
           /\ uiLog' = l3
           /\ timers' = IF dlg.auto_close_on_complete
                        THEN Append(timers, [delay |-> dlg.auto_close_delay,
                                             slot |-> "accept"])
                        ELSE timers
    /\ uiQueue' = Tail(uiQueue)
    /\ UNCHANGED <<workers, uipc, startLog>>

\* as OnError, without the auto-close
OnError_NoTimer ==
    /\ Pending("error")
    /\ LET error_message == Head(uiQueue).ev.text
           l1 == Append(uiLog, Log("set_error", error_message, <<>>))
           l2 == IF dlg.on_error_callback
                 THEN Append(l1, Log("on_error", error_message, <<>>)) ELSE l1
       IN  /\ dlg' = set_error(dlg, error_message)
           /\ uiLog' = l2
           /\ timers' = timers
    /\ uiQueue' = Tail(uiQueue)
    /\ UNCHANGED <<workers, uipc, startLog>>

\* as OnError, closing as the success path does: only when auto-close is
\* enabled, after the configured delay
OnError_UsesAutoClose ==
    /\ Pending("error")
    /\ LET error_message == Head(uiQueue).ev.text
           l1 == Append(uiLog, Log("set_error", error_message, <<>>))
           l2 == IF dlg.on_error_callback
                 THEN Append(l1, Log("on_error", error_message, <<>>)) ELSE l1
       IN  /\ dlg' = set_error(dlg, error_message)
           /\ uiLog' = IF dlg.auto_close_on_complete
                       THEN Append(l2, Log("singleShot", "reject", <<>>)) ELSE l2
           /\ timers' = IF dlg.auto_close_on_complete
                        THEN Append(timers, [delay |-> dlg.auto_close_delay,
                                             slot |-> "reject"])
                        ELSE timers
    /\ uiQueue' = Tail(uiQueue)
    /\ UNCHANGED <<workers, uipc, startLog>>

\* ThreadedLoadingDialog._on_error
OnError ==
    /\ Pending("error")
    /\ LET error_message == Head(uiQueue).ev.text
           l1 == Append(uiLog, Log("set_error", error_message, <<>>))
           l2 == IF dlg.on_error_callback
                 THEN Append(l1, Log("on_error", error_message, <<>>)) ELSE l1
       IN  /\ dlg' = set_error(dlg, error_message)
           /\ uiLog' = Append(l2, Log("singleShot", "reject", <<>>))
           /\ timers' = Append(timers, [delay |-> 5000, slot |-> "reject"])
    /\ uiQueue' = Tail(uiQueue)
    /\ UNCHANGED <<workers, uipc, startLog>>

\* ThreadedLoadingDialog._on_thread_finished
OnThreadFinished ==
    /\ Pending("finished")
    /\ dlg' = [dlg EXCEPT !.worker_thread = 0]
    /\ uiQueue' = Tail(uiQueue)
    /\ UNCHANGED <<workers, uipc, timers, uiLog, startLog>>

\* a QTimer.singleShot fires: self.accept or self.reject
TimerFires(k) ==
    /\ uipc = "idle"
    /\ k \in DOMAIN timers
    /\ dlg' = done(dlg, IF timers[k].slot = "accept" THEN "Accepted" ELSE "Rejected")
    /\ uiLog' = Append(uiLog, Log(timers[k].slot, "timer", <<>>))
    /\ timers' = SubSeq(timers, 1, k - 1) \o SubSeq(timers, k + 1, Len(timers))
    /\ UNCHANGED <<workers, uiQueue, uipc, startLog>>

\* the worker the condition of _on_cancel finds running
RunningWorker ==
    dlg.worker_thread # 0 /\ workers[dlg.worker_thread].running

\* as OnCancelIdle, closing with accept()
OnCancelIdle_Accepts ==
    /\ uipc = "idle"
    /\ dlg.visible
    /\ ~RunningWorker
    /\ dlg' = done(dlg, "Accepted")
    /\ uiLog' = Append(uiLog, Log("reject", "button", <<>>))
    /\ UNCHANGED <<workers, uiQueue, uipc, timers, startLog>>

\* ThreadedLoadingDialog._on_cancel, no running worker: self.reject()
OnCancelIdle ==
    /\ uipc = "idle"
    /\ dlg.visible
    /\ ~RunningWorker
    /\ dlg' = done(dlg, "Rejected")
    /\ uiLog' = Append(uiLog, Log("reject", "button", <<>>))
    /\ UNCHANGED <<workers, uiQueue, uipc, timers, startLog>>

\* ThreadedLoadingDialog._on_cancel, the condition finds a running worker
OnCancelRunning ==
    /\ uipc = "idle"
    /\ dlg.visible
    /\ RunningWorker
    /\ uipc' = "cancel_checked"
    /\ uiLog' = Append(uiLog, Log("cancel", "running", <<>>))
    /\ UNCHANGED <<dlg, workers, uiQueue, timers, startLog>>

\* _on_cancel: self.worker_thread.cancel(); quit(); then wait() blocks
OnCancelRequest ==
    /\ uipc = "cancel_checked"
    /\ workers' = Cancel(dlg.worker_thread)
    /\ uipc' = "waiting"
    /\ UNCHANGED <<dlg, uiQueue, timers, uiLog, startLog>>

\* as OnCancelWaitReturns, without wait(): reject() is called at once
OnCancelWaitReturns_NoWait ==
    /\ uipc = "waiting"
    /\ uipc' = "idle"
    /\ dlg' = done(dlg, "Rejected")
    /\ uiLog' = Append(uiLog, Log("reject", "cancel", <<>>))
    /\ UNCHANGED <<workers, uiQueue, timers, startLog>>

\* _on_cancel: wait() returns once the thread has stopped; self.reject()
OnCancelWaitReturns ==
    /\ uipc = "waiting"
    /\ ~workers[dlg.worker_thread].running
    /\ uipc' = "idle"
    /\ dlg' = done(dlg, "Rejected")
    /\ uiLog' = Append(uiLog, Log("reject", "cancel", <<>>))
    /\ UNCHANGED <<workers, uiQueue, timers, startLog>>

----------------------------------------------------------------------------
(* Specification: the caller configures the dialog, calls start() once and *)
(* shows the dialog; the worker thread and the UI thread then interleave.  *)

Configure ==
    /\ Configuring
    /\ \/ \E q \in TaskQueues : SetTasks(q)
       \/ SetOnCompleteCallback
       \/ SetOnErrorCallback
       \/ \E en \in BOOLEAN, d \in AutoCloseDelays : SetAutoClose(en, d)

Start ==
    /\ Configuring
    /\ (StartEmpty \/ StartWorker)

WorkerStep ==
    \E w \in DOMAIN workers :
        \/ RunNextTask(w)
        \/ RunLoopExit(w)
        \/ RunEmitTaskStarted(w)
        \/ RunEmitProgress(w)
        \/ RunCallOperation(w)
        \/ RunOperationReturns(w)
        \/ RunOperationRaises(w)
        \/ RunPostCheck(w)
        \/ RunEmitTaskCompleted(w)
        \/ RunEmitFinalProgress(w)
        \/ RunEmitAllCompleted(w)
        \/ RunEmitError(w)
        \/ ThreadFinishes(w)

UiStep ==
    \/ Show
    \/ OnTaskStarted
    \/ OnTaskCompleted
    \/ OnProgress
    \/ OnAllCompleted
    \/ OnError
    \/ OnThreadFinished
    \/ \E k \in DOMAIN timers : TimerFires(k)
    \/ OnCancelIdle
    \/ OnCancelRunning
    \/ OnCancelRequest
    \/ OnCancelWaitReturns

Next == Configure \/ Start \/ WorkerStep \/ UiStep

Spec == Init /\ [][Next]_vars

\* what the UI thread does by itself: its event loop handles the posted
\* signals and the timers that are due, and a handler that has begun goes on
UiProgress ==
    \/ OnTaskStarted
    \/ OnTaskCompleted
    \/ OnProgress
    \/ OnAllCompleted
    \/ OnError
    \/ OnThreadFinished
    \/ OnCancelRequest
    \/ OnCancelWaitReturns

\* Spec with scheduling: the worker thread keeps running and every operation
\* ends, the UI thread's event loop keeps running; the user need not act
FairSpec ==
    /\ Spec
    /\ WF_vars(WorkerStep)
    /\ WF_vars(UiProgress)
    /\ WF_vars(\E k \in DOMAIN timers : TimerFires(k))

----------------------------------------------------------------------------
(* Specification with a second call of start(): start() has no guard, so   *)
(* the caller can call it again on the same dialog, also while the worker  *)
(* of the first call is running.  The dialog then holds the new worker     *)
(* only.                                                                   *)

SecondStart ==
    /\ Len(startLog) = 1
    /\ (StartEmpty \/ StartWorker)

\* a QThread that is still running and that the dialog no longer refers to
\* (start() overwrote self.worker_thread, or _on_thread_finished of another
\* worker released it with deleteLater()) may be destroyed while it runs;
\* Qt then aborts the process.  Whether and when this happens is not
\* determined by the code.
ProcessAbort ==
    /\ uipc # "aborted"
    /\ \E w \in DOMAIN workers : workers[w].running /\ dlg.worker_thread # w
    /\ uipc' = "aborted"
    /\ workers' = [w \in DOMAIN workers |->
                      [workers[w] EXCEPT !.pc = "aborted", !.running = FALSE]]
    /\ UNCHANGED <<dlg, uiQueue, timers, uiLog, startLog>>

NextRestart == Start \/ SecondStart \/ WorkerStep \/ UiStep \/ ProcessAbort

\* the dialog is constructed with a queue of at most one task and is not
\* configured further
InitRestart ==
    /\ Init
    /\ Len(dlg.tasks) <= 1

SpecRestart == InitRestart /\ [][NextRestart]_vars

----------------------------------------------------------------------------
(* Vocabulary of the properties *)

TaskOk(t) == t.function # NoKey /\ ~OpBehaviour[t.function].raises

AllOk(tasks) == \A k \in DOMAIN tasks : TaskOk(tasks[k])

\* the return values of the operations of a queue, in queue order
Returns(tasks) == [k \in DOMAIN tasks |-> OpBehaviour[tasks[k].function].value]

\* 0-based index of the first task whose operation does not succeed
FirstFail(tasks) ==
    (CHOOSE k \in DOMAIN tasks :
        /\ ~TaskOk(tasks[k])
        /\ \A j \in 1..(k - 1) : TaskOk(tasks[j])) - 1

Count(tr, sig) == Len(SelectSeq(tr, LAMBDA e : e.sig = sig))

LogCount(op) == Len(SelectSeq(uiLog, LAMBDA e : e.op = op))

IsPrefix(s, t) == Len(s) <= Len(t) /\ SubSeq(t, 1, Len(s)) = s

RunReturned(w) == workers[w].pc \in {"returned", "finished"}

\* the trace of task i (0-based) when its operation succeeds
OkTaskTrace(tasks, i) ==
    << Ev("task_started", i, 0, Description(tasks[i + 1], i), <<>>),
       Ev("progress", i, Len(tasks), "", <<>>),
       OpCall(i), OpReturn(i),
       Ev("task_completed", i, 0, "", <<>> ) >>

\* the traces of tasks 0..n-1, one after the other
RECURSIVE OkTraceUpTo(_, _)
OkTraceUpTo(tasks, n) ==
    IF n = 0 THEN <<>> ELSE OkTraceUpTo(tasks, n - 1) \o OkTaskTrace(tasks, n - 1)

\* the whole trace of a run without failure and without cancellation
SuccessTrace(tasks) ==
    OkTraceUpTo(tasks, Len(tasks)) \o
    << Ev("progress", Len(tasks), Len(tasks), "", <<>>),
       Ev("all_completed", 0, 0, "", Returns(tasks)) >>

CountIdx(tr, sig, idx) == Len(SelectSeq(tr, LAMBDA e : e.sig = sig /\ e.idx = idx))

\* the signals of a trace that carry a task index, and the operation calls
PerTask == {"task_started", "task_completed", "progress", "op_call", "op_return", "op_raise"}

----------------------------------------------------------------------------
(* Properties of TaskWorkerThread.run *)

\* C1: a run of a non-empty queue whose operations all succeed and whose
\* cancel() is not called never emits error, and when run() has returned it
\* has emitted exactly one all_completed, carrying one result per task, the
\* i-th being the return value of task i.
C1_AllCompletedWithResults ==
    \A w \in DOMAIN workers :
        (AllOk(workers[w].tasks) /\ ~workers[w].cancelled) =>
            LET tr   == workers[w].trace
                done_ == SelectSeq(tr, LAMBDA e : e.sig = "all_completed")
            IN  /\ Count(tr, "error") = 0
                /\ Len(done_) <= 1
                /\ RunReturned(w) =>
                      /\ Len(done_) = 1
                      /\ Len(done_[1].data) = NumTasks(w)
                      /\ done_[1].data = Returns(workers[w].tasks)

C1_Witness ==
    \E w \in DOMAIN workers :
        /\ AllOk(workers[w].tasks) /\ ~workers[w].cancelled
        /\ workers[w].pc = "finished"
        /\ Count(workers[w].trace, "all_completed") = 1
        /\ NumTasks(w) = 2
        /\ Returns(workers[w].tasks) = <<1, 2>>

\* C2: in a run without failure and without cancellation the worker emits,
\* for i = 0..N-1 in order, task_started(i, description), progress(i, N) and,
\* after the operation of task i has returned, task_completed(i); then
\* progress(N, N) and all_completed, and nothing after all_completed.
C2_EventOrder ==
    \A w \in DOMAIN workers :
        (AllOk(workers[w].tasks) /\ ~workers[w].cancelled) =>
            /\ IsPrefix(workers[w].trace, SuccessTrace(workers[w].tasks))
            /\ RunReturned(w) => workers[w].trace = SuccessTrace(workers[w].tasks)

C2_Witness ==
    \E w \in DOMAIN workers :
        /\ AllOk(workers[w].tasks) /\ ~workers[w].cancelled
        /\ NumTasks(w) = 2
        /\ RunReturned(w)
        /\ Len(workers[w].trace) = 12

\* C3: fail-fast.  In a run without cancellation whose task k is the first
\* to fail, nothing is emitted and no operation is called for a task after
\* k, the operation of k is called at most once, task_completed(k) is not
\* emitted, error is emitted at most once and is the last thing emitted; when
\* run() has returned, error was emitted exactly once, tasks 0..k-1 each have
\* one task_started and one task_completed, and task k has one task_started.
C3_FailFast ==
    \A w \in DOMAIN workers :
        (~AllOk(workers[w].tasks) /\ ~workers[w].cancelled) =>
            LET tr == workers[w].trace
                k  == FirstFail(workers[w].tasks)
            IN  /\ \A p \in DOMAIN tr : tr[p].sig \in PerTask => tr[p].idx <= k
                /\ CountIdx(tr, "op_call", k) <= 1
                /\ CountIdx(tr, "task_completed", k) = 0
                /\ Count(tr, "all_completed") = 0
                /\ Count(tr, "error") <= 1
                /\ \A p \in DOMAIN tr : tr[p].sig = "error" => p = Len(tr)
                /\ RunReturned(w) =>
                      /\ Count(tr, "error") = 1
                      /\ CountIdx(tr, "task_started", k) = 1
                      /\ \A j \in 0..(k - 1) :
                            /\ CountIdx(tr, "task_started", j) = 1
                            /\ CountIdx(tr, "task_completed", j) = 1

C3_Witness ==
    \E w \in DOMAIN workers :
        /\ ~AllOk(workers[w].tasks) /\ ~workers[w].cancelled
        /\ FirstFail(workers[w].tasks) = 0
        /\ NumTasks(w) = 2
        /\ workers[w].pc = "finished"
        /\ Count(workers[w].trace, "error") = 1

\* C4: a run emits at most one terminal signal (all_completed or error, never
\* both, neither twice), and a run that returned at a cancellation check
\* emits neither.
C4_OneTerminalEvent ==
    \A w \in DOMAIN workers :
        /\ Count(workers[w].trace, "all_completed") + Count(workers[w].trace, "error") <= 1
        /\ workers[w].observed =>
              /\ Count(workers[w].trace, "all_completed") = 0
              /\ Count(workers[w].trace, "error") = 0

C4_Witness ==
    \E w \in DOMAIN workers :
        /\ workers[w].observed
        /\ workers[w].pc = "finished"
        /\ workers[w].results # <<>>

----------------------------------------------------------------------------
(* Cancellation while the worker runs *)

\* C5: if cancel() sets the flag while the operation of task k is in flight,
\* no task_started for a later task is emitted, and neither all_completed
\* nor error is emitted, also when the operation of task k raises.
C5_CancelInFlight ==
    \A w \in DOMAIN workers :
        workers[w].cancelPc = "in_flight" =>
            LET tr == workers[w].trace
            IN  /\ \A p \in DOMAIN tr :
                      tr[p].sig = "task_started" => tr[p].idx <= workers[w].cancelI
                /\ Count(tr, "all_completed") = 0
                /\ Count(tr, "error") = 0

\* C6: once cancel() has set the flag, the worker emits no all_completed.
C6_NoAllCompletedAfterCancel ==
    \A w \in DOMAIN workers :
        workers[w].cancelPos >= 0 =>
            \A p \in DOMAIN workers[w].trace :
                p > workers[w].cancelPos => workers[w].trace[p].sig # "all_completed"

\* C7: once _on_cancel has found a running worker, neither on_complete nor
\* on_error is invoked.
C7_NoCallbackAfterCancel ==
    \A p \in DOMAIN uiLog : \A q \in DOMAIN uiLog :
        (uiLog[p].op = "cancel" /\ q > p) => uiLog[q].op \notin {"on_complete", "on_error"}

----------------------------------------------------------------------------
(* start() and the callbacks *)

EmptyStarts == { k \in DOMAIN startLog : startLog[k].empty }

RECURSIVE EmittedUpTo(_, _)
EmittedUpTo(sig, n) ==
    IF n = 0 THEN 0 ELSE EmittedUpTo(sig, n - 1) + Count(workers[n].trace, sig)

\* the number of signals sig the UI thread has handled
HandledCount(sig) ==
    EmittedUpTo(sig, Len(workers)) - Len(SelectSeq(uiQueue, LAMBDA m : m.ev.sig = sig))

\* C9: in one run with an on_complete callback set, the callback is invoked
\* once for the handled all_completed and never otherwise, it receives the
\* results of all tasks in queue order, and the auto-close timer is
\* scheduled after the invocation.
C9_OnCompleteOnce ==
    /\ LogCount("on_complete") <= 1
    /\ LogCount("set_complete") = HandledCount("all_completed")
    /\ LogCount("on_complete") =
          IF dlg.on_complete_callback THEN HandledCount("all_completed") ELSE 0
    /\ \A p \in DOMAIN uiLog :
          uiLog[p].op = "on_complete" =>
              /\ p > 1 /\ uiLog[p - 1].op = "set_complete"
              /\ \E w \in DOMAIN workers :
                    /\ AllOk(workers[w].tasks)
                    /\ uiLog[p].data = Returns(workers[w].tasks)
              /\ \A q \in 1..(p - 1) : uiLog[q].op # "singleShot"
              /\ dlg.auto_close_on_complete =>
                    /\ p + 1 \in DOMAIN uiLog
                    /\ uiLog[p + 1] = Log("singleShot", "accept", <<>>)

C9_Witness ==
    \E p \in DOMAIN uiLog :
        /\ uiLog[p].op = "on_complete"
        /\ uiLog[p].data = <<2, 1>>
        /\ p + 1 \in DOMAIN uiLog
        /\ uiLog[p + 1].op = "singleShot"

\* C10: in one run with an on_error callback set, the callback is invoked
\* once for the handled error signal and never otherwise: not by start()
\* with an empty queue, and not in a run where on_complete was invoked.
C10_OnErrorOnce ==
    /\ LogCount("on_error") <= 1
    /\ LogCount("on_error") =
          IF dlg.on_error_callback THEN HandledCount("error") ELSE 0
    /\ \A p \in DOMAIN uiLog :
          uiLog[p].op = "on_error" =>
              /\ p > 1 /\ uiLog[p - 1] = Log("set_error", uiLog[p].text, <<>>)
              /\ \E w \in DOMAIN workers : \E n \in DOMAIN workers[w].trace :
                    /\ workers[w].trace[n].sig = "error"
                    /\ workers[w].trace[n].text = uiLog[p].text
    /\ EmptyStarts # {} /\ workers = <<>> => LogCount("on_error") = 0
    /\ ~(LogCount("on_error") > 0 /\ LogCount("on_complete") > 0)

C10_Witness ==
    /\ LogCount("on_error") = 1
    /\ dlg.on_complete_callback
    /\ \E w \in DOMAIN workers : workers[w].pc = "finished" /\ workers[w].results # <<>>

----------------------------------------------------------------------------
(* Runs of one dialog *)

\* C11: at most one worker thread created by the dialog is running, for any
\* sequence of start() calls, so no two operations of the dialog execute at
\* the same time.
C11_OneRunningWorker ==
    \A v \in DOMAIN workers : \A w \in DOMAIN workers :
        (workers[v].running /\ workers[w].running) => v = w

----------------------------------------------------------------------------
(* Progress *)

\* the signals of a trace, without the operation markers
Signals(tr) == SelectSeq(tr, LAMBDA e : e.sig \in WorkerSignals)

\* C12 as stated: progress(i, N) is emitted immediately before
\* task_started(i), and progress(N, N) only immediately before all_completed.
C12_ProgressBeforeStarted ==
    \A w \in DOMAIN workers :
        LET s == Signals(workers[w].trace)
            N == NumTasks(w)
        IN  /\ \A p \in DOMAIN s :
                  s[p].sig = "task_started" =>
                      p > 1 /\ s[p - 1] = Ev("progress", s[p].idx, N, "", <<>>)
            /\ \A p \in DOMAIN s :
                  (s[p].sig = "progress" /\ s[p].idx = N /\ p < Len(s)) =>
                      s[p + 1].sig = "all_completed"

\* C12 as amended: progress(i, N) is emitted immediately after
\* task_started(i), for every task that is started; progress(N, N) is
\* emitted only immediately before all_completed, and all_completed only
\* immediately after it.
C12_ProgressAfterStarted ==
    \A w \in DOMAIN workers :
        LET s == Signals(workers[w].trace)
            N == NumTasks(w)
        IN  /\ \A p \in DOMAIN s :
                  (s[p].sig = "progress" /\ s[p].idx < N) =>
                      /\ p > 1
                      /\ s[p - 1].sig = "task_started"
                      /\ s[p - 1].idx = s[p].idx
            /\ \A p \in DOMAIN s :
                  (s[p].sig = "task_started" /\ p < Len(s)) =>
                      s[p + 1] = Ev("progress", s[p].idx, N, "", <<>>)
            /\ \A p \in DOMAIN s :
                  (s[p].sig = "progress" /\ s[p].idx >= N) =>
                      /\ s[p].idx = N /\ s[p].total = N
                      /\ p < Len(s) => (p + 1 = Len(s) /\ s[p + 1].sig = "all_completed")
                      /\ RunReturned(w) => p < Len(s)
            /\ \A p \in DOMAIN s :
                  s[p].sig = "all_completed" =>
                      p > 1 /\ s[p - 1] = Ev("progress", N, N, "", <<>>)

C12_Witness ==
    \E w \in DOMAIN workers :
        /\ NumTasks(w) = 2
        /\ Count(workers[w].trace, "all_completed") = 1
        /\ Count(workers[w].trace, "progress") = 3

\* C13: within a run the first component of the progress signals starts at
\* 0, never decreases and never exceeds N; progress(N, N) is emitted only in
\* a run whose tasks all succeeded, followed by all_completed, and never in
\* a run that failed or that returned at a cancellation check.
C13_ProgressMonotone ==
    \A w \in DOMAIN workers :
        LET tr == workers[w].trace
            pr == SelectSeq(tr, LAMBDA e : e.sig = "progress")
            N  == NumTasks(w)
            final == \E p \in DOMAIN pr : pr[p].idx = N
        IN  /\ pr # <<>> => pr[1].idx = 0
            /\ \A p \in 1..(Len(pr) - 1) : pr[p].idx <= pr[p + 1].idx
            /\ \A p \in DOMAIN pr : pr[p].idx >= 0 /\ pr[p].idx <= N /\ pr[p].total = N
            /\ final =>
                  /\ AllOk(workers[w].tasks)
                  /\ Len(workers[w].results) = N
                  /\ Count(tr, "task_completed") = N
                  /\ RunReturned(w) => tr[Len(tr)].sig = "all_completed"
            /\ (workers[w].observed \/ Count(tr, "error") > 0 \/ workers[w].pc = "except")
                  => ~final

C13_Witness ==
    \E w \in DOMAIN workers :
        /\ NumTasks(w) = 2
        /\ RunReturned(w)
        /\ workers[w].cancelled
        /\ LET pr == SelectSeq(workers[w].trace, LAMBDA e : e.sig = "progress")
           IN  Len(pr) = 3 /\ pr[3].idx = 2

----------------------------------------------------------------------------
(* Cancellation checks *)

\* C14: once the worker has seen the cancellation flag at one of its two
\* checks, it emits no further signal of any kind in that run.
C14_SilentAfterObserved ==
    [][\A w \in DOMAIN workers :
          workers[w].observed =>
              /\ workers'[w].trace = workers[w].trace
              /\ workers'[w].results = workers[w].results
              /\ workers'[w].pc \in {"returned", "finished"}]_vars

C14_Witness ==
    \E w \in DOMAIN workers :
        /\ workers[w].observed
        /\ workers[w].pc = "finished"
        /\ workers[w].trace # <<>>
        /\ workers[w].trace[Len(workers[w].trace)].sig = "op_return"

\* the positions of the operation calls made after cancel() set the flag
CallsAfterCancel(w) ==
    { p \in DOMAIN workers[w].trace :
        p > workers[w].cancelPos /\ workers[w].trace[p].sig = "op_call" }

\* C15: after cancel() has set the flag the worker starts at most one more
\* operation, and only that of the task whose check before the start had
\* already passed when the flag was set.
C15_AtMostOneMoreOperation ==
    \A w \in DOMAIN workers :
        workers[w].cancelPos >= 0 =>
            /\ Cardinality(CallsAfterCancel(w)) <= 1
            /\ CallsAfterCancel(w) # {} =>
                  /\ workers[w].cancelPc \in {"emit_started", "emit_progress", "fetch"}
                  /\ \A p \in CallsAfterCancel(w) :
                        workers[w].trace[p].idx = workers[w].cancelI

C15_Witness ==
    \E w \in DOMAIN workers :
        /\ workers[w].cancelPos >= 0
        /\ CallsAfterCancel(w) # {}
        /\ workers[w].cancelI = 1
        /\ workers[w].pc = "finished"

----------------------------------------------------------------------------
(* The dialog's closing *)

\* C16: when _on_cancel finds a running worker it sets the worker's flag,
\* the dialog stays open while the worker thread runs, the worker is not
\* running at the moment _on_cancel closes the dialog, and (the operations
\* ending) the dialog is eventually closed with a rejected result.
C16_CancelWaitsThenRejects ==
    /\ [](uipc \in {"cancel_checked", "waiting"} =>
             /\ dlg.visible
             /\ dlg.worker_thread # 0
             /\ uipc = "waiting" => workers[dlg.worker_thread].cancelled)
    /\ [][(uipc = "waiting" /\ uipc' = "idle") =>
             /\ ~workers[dlg.worker_thread].running
             /\ ~dlg'.visible
             /\ dlg'.result = "Rejected"]_vars
    /\ (uipc = "cancel_checked") ~> (uipc = "idle" /\ ~dlg.visible /\ dlg.result = "Rejected")

C16_Witness ==
    /\ \E p \in DOMAIN uiLog : uiLog[p] = Log("reject", "cancel", <<>>)
    /\ \E w \in DOMAIN workers :
          /\ workers[w].cancelPc = "in_flight"
          /\ workers[w].observed
          /\ NumTasks(w) = 2
    /\ dlg.result = "Rejected"

PendingTimer(slot) == \E k \in DOMAIN timers : timers[k].slot = slot

\* C17: once all_completed is handled the dialog shows the completed state;
\* with auto-close enabled a timer with the configured delay is scheduled
\* and the dialog is eventually accepted when it fires; with auto-close
\* disabled no close is scheduled, the dialog is never accepted and it is
\* closed only by the user.
C17_AutoCloseOnComplete ==
    /\ [](HandledCount("all_completed") > 0 =>
             /\ dlg.bar_style = "green"
             /\ dlg.bar_value = 100
             /\ dlg.status_label = "Processing complete!"
             /\ dlg.cancel_button = "Close"
             /\ dlg.auto_close_on_complete =>
                   \/ \E k \in DOMAIN timers :
                         timers[k] = [delay |-> dlg.auto_close_delay, slot |-> "accept"]
                   \/ LogCount("accept") = 1)
    /\ [](~dlg.auto_close_on_complete =>
             /\ ~PendingTimer("accept")
             /\ LogCount("accept") = 0
             /\ dlg.result # "Accepted")
    /\ [][(~dlg.auto_close_on_complete /\ HandledCount("all_completed") > 0
             /\ dlg.visible /\ ~dlg'.visible) =>
                uiLog' \in { Append(uiLog, Log("reject", "button", <<>>)),
                             Append(uiLog, Log("reject", "cancel", <<>>)) }]_vars
    /\ PendingTimer("accept") ~> (dlg.result = "Accepted" /\ ~dlg.visible)

C17_Witness ==
    /\ dlg.result = "Accepted"
    /\ dlg.auto_close_delay = 1500
    /\ dlg.status_label = "Processing complete!"
    /\ LogCount("accept") = 1

----------------------------------------------------------------------------
(* The error display *)

\* the dialog shows the state that set_error displays
FailedDisplay == dlg.bar_style = "red" /\ dlg.cancel_button = "Close"

TimerRejects == Len(SelectSeq(uiLog, LAMBDA e : e = Log("reject", "timer", <<>>)))

C19_ErrorCloseIgnoresAutoClose ==
    /\ \A k \in DOMAIN timers :
          /\ timers[k].slot = "reject" => timers[k].delay = 5000
          /\ timers[k].slot = "accept" =>
                timers[k].delay = dlg.auto_close_delay /\ dlg.auto_close_on_complete
    /\ Len(SelectSeq(uiLog, LAMBDA e : e = Log("singleShot", "reject", <<>>)))
          = HandledCount("error")
    /\ Len(SelectSeq(timers, LAMBDA t : t.slot = "reject")) + TimerRejects
          = HandledCount("error")

C19_Witness ==
    /\ ~dlg.auto_close_on_complete
    /\ dlg.auto_close_delay = 1500
    /\ HandledCount("error") = 1
    /\ timers = << [delay |-> 5000, slot |-> "reject"] >>

----------------------------------------------------------------------------
(* The cancellation flag *)

\* C20: the flag of a worker is false when the worker is constructed, is
\* changed only from false to true, and only by cancel() called by the UI
\* thread in _on_cancel; no step of run() writes it, and once true it stays
\* true.
C20_FlagSetOnceByOwner ==
    [][/\ \A w \in DOMAIN workers' :
             w \notin DOMAIN workers => ~workers'[w].cancelled
       /\ \A w \in DOMAIN workers :
             /\ workers[w].cancelled => workers'[w].cancelled
             /\ workers'[w].cancelled # workers[w].cancelled =>
                   /\ uipc = "cancel_checked" /\ uipc' = "waiting"
                   /\ w = dlg.worker_thread
                   /\ workers'[w].pc = workers[w].pc
                   /\ workers'[w].trace = workers[w].trace
                   /\ workers'[w].results = workers[w].results]_vars

C20_Witness ==
    \E w \in DOMAIN workers :
        /\ workers[w].cancelled
        /\ workers[w].observed
        /\ workers[w].pc = "finished"
        /\ uipc = "idle"

----------------------------------------------------------------------------
(* The results list *)

\* C21: the results of a worker are the return values of the operations
\* that have returned so far, in queue order, one entry per returned
\* operation; the list changes only by an append at its end; an operation
\* that fails adds no entry, so that after a failure of task k the list
\* holds the values of tasks 0..k-1.
C21_ResultsArePrefix ==
    /\ [](\A w \in DOMAIN workers :
             LET res == workers[w].results
                 tr  == workers[w].trace
             IN  /\ Len(res) <= NumTasks(w)
                 /\ Len(res) = Count(tr, "op_return")
                 /\ \A j \in DOMAIN res :
                       /\ TaskOk(workers[w].tasks[j])
                       /\ res[j] = OpBehaviour[workers[w].tasks[j].function].value
                 /\ (workers[w].pc = "except" \/ Count(tr, "error") > 0) =>
                       Len(res) = FirstFail(workers[w].tasks))
    /\ [][\A w \in DOMAIN workers :
             \/ workers'[w].results = workers[w].results
             \/ /\ Len(workers'[w].results) = Len(workers[w].results) + 1
                /\ SubSeq(workers'[w].results, 1, Len(workers[w].results))
                      = workers[w].results
                /\ workers[w].pc = "in_flight"]_vars

C21_Witness ==
    \E w \in DOMAIN workers :
        /\ NumTasks(w) = 2
        /\ workers[w].results = <<2>>
        /\ Count(workers[w].trace, "error") = 1
        /\ workers[w].pc = "finished"

----------------------------------------------------------------------------
(* The error message *)

\* the signals of kind sig in a trace
Emitted(tr, sig) == SelectSeq(tr, LAMBDA e : e.sig = sig)

\* C22: whenever a worker has emitted error, the operation named in the
\* message is that of the task whose task_started was emitted last (the task
\* the loop is at), also when the failure is the lookup of 'function' in a
\* descriptor that lacks it.
C22_ErrorNamesFailingTask ==
    \A w \in DOMAIN workers :
        \A p \in DOMAIN Emitted(workers[w].trace, "error") :
            /\ Count(workers[w].trace, "task_started") = workers[w].i + 1
            /\ Emitted(workers[w].trace, "error")[p].text
                  = ErrorMessage(CurTask(w).function, workers[w].exc)

----------------------------------------------------------------------------
(* Suspension of the UI thread *)

\* a worker is inside a task's operation
InOperation(w) == workers[w].pc = "in_flight"

\* C23 as stated: the UI thread is never suspended while a worker is inside
\* a task's operation.
C23_UiNeverBlocked ==
    ~(uipc = "waiting" /\ \E w \in DOMAIN workers : InOperation(w))

\* C23: the UI thread is suspended only inside _on_cancel, in wait(), after
\* it has set the cancellation flag of the dialog's worker; start() and the
\* handlers of the worker's signals never leave it suspended.
C23_BlocksOnlyInCancel ==
    /\ uipc \in {"idle", "cancel_checked", "waiting"}
    /\ uipc # "idle" =>
          /\ dlg.worker_thread # 0
          /\ uiLog # <<>>
          /\ uiLog[Len(uiLog)] = Log("cancel", "running", <<>>)
    /\ uipc = "waiting" => workers[dlg.worker_thread].cancelled

C23_Witness ==
    /\ uipc = "waiting"
    /\ InOperation(dlg.worker_thread)
    /\ workers[dlg.worker_thread].cancelled

----------------------------------------------------------------------------
(* Specification: as Spec, with the dialog's defaults, and the caller may   *)
(* call set_tasks again while the worker it started is running.             *)

\* the lists the caller passes to set_tasks during a run: the empty list or
\* a list of one descriptor
ReplacementQueues == {<<>>} \cup {<<t>> : t \in TaskPool}

\* set_tasks called from the UI thread while the dialog's worker is running
SetTasksWhileRunning ==
    /\ RunningWorker
    /\ \E q \in ReplacementQueues : SetTasks(q)

NextSetTasks == Start \/ WorkerStep \/ UiStep \/ SetTasksWhileRunning

SpecSetTasks == Init /\ [][NextSetTasks]_vars

\* C24: the queue of a run is fixed when the run starts: no step changes the
\* queue of an existing worker or a descriptor in it, every progress event
\* carries the length of that queue as its total, and a set_tasks call made
\* while the worker is running changes the dialog's tasks field and nothing
\* else.
C24_QueueFixedAtStart ==
    /\ [](\A w \in DOMAIN workers :
             /\ \A p \in DOMAIN Emitted(workers[w].trace, "progress") :
                   Emitted(workers[w].trace, "progress")[p].total = NumTasks(w)
             /\ Count(workers[w].trace, "op_call") <= NumTasks(w)
             /\ workers[w].pc \in {"fetch", "in_flight"} => workers[w].i < NumTasks(w))
    /\ [][/\ \A w \in DOMAIN workers : workers'[w].tasks = workers[w].tasks
          /\ (workers # <<>> /\ dlg'.tasks # dlg.tasks) =>
                /\ RunningWorker
                /\ dlg' = [dlg EXCEPT !.tasks = dlg'.tasks]
                /\ UNCHANGED <<workers, uiQueue, uipc, timers, uiLog, startLog>>]_vars

C24_Witness ==
    \E w \in DOMAIN workers :
        /\ NumTasks(w) = 2
        /\ dlg.tasks # workers[w].tasks
        /\ Count(workers[w].trace, "op_return") = 2
        /\ Count(workers[w].trace, "all_completed") = 1

----------------------------------------------------------------------------
(* Release of the worker *)

\* C25: the handler of a worker's finished signal releases that worker only:
\* whenever the dialog's worker_thread becomes None, the finished signal
\* being handled is that of the worker the dialog referred to, and that
\* worker has stopped running.
C25_ReleasesOwnWorker ==
    [][(dlg.worker_thread # 0 /\ dlg'.worker_thread = 0) =>
          /\ uiQueue # <<>>
          /\ Head(uiQueue).ev.sig = "finished"
          /\ Head(uiQueue).w = dlg.worker_thread
          /\ ~workers[dlg.worker_thread].running]_vars

----------------------------------------------------------------------------
(* Results against the task events *)

\* C26: for every worker, task_completed events <= length of results <=
\* task_started events, adjacent counts differ by at most one, and in a run
\* that has returned the results outnumber the task_completed events only
\* when the run returned at the check that follows an operation's return.
C26_CountsInterleave ==
    \A w \in DOMAIN workers :
        LET tr == workers[w].trace
            C  == Count(tr, "task_completed")
            R  == Len(workers[w].results)
            S  == Count(tr, "task_started")
        IN  /\ C <= R
            /\ R <= S
            /\ R - C <= 1
            /\ S - R <= 1
            /\ (RunReturned(w) /\ R > C) =>
                  /\ workers[w].observed
                  /\ tr[Len(tr)].sig = "op_return"

C26_Witness ==
    \E w \in DOMAIN workers :
        /\ workers[w].pc = "finished"
        /\ workers[w].observed
        /\ Len(workers[w].results) = 2
        /\ Count(workers[w].trace, "task_completed") = 1

----------------------------------------------------------------------------
(* The dialog's result *)

\* the number of scheduled calls of slot that have not fired
Scheduled(tm, slot) == Len(SelectSeq(tm, LAMBDA t : t.slot = slot))

\* C27: the dialog's result is Accepted only if an all_completed signal was
\* handled, and accept is scheduled only by the handler of all_completed;
\* every close made by the error timer, by the button or at the end of a
\* cancellation leaves the result Rejected.
C27_AcceptedOnlyOnCompletion ==
    /\ []((dlg.result = "Accepted" \/ PendingTimer("accept")) =>
             /\ HandledCount("all_completed") > 0
             /\ LogCount("set_complete") > 0)
    /\ [][/\ Scheduled(timers', "accept") > Scheduled(timers, "accept") =>
                /\ Pending("all_completed")
                /\ dlg.auto_close_on_complete
          /\ (Len(uiLog') = Len(uiLog) + 1 /\ uiLog'[Len(uiLog')].op = "reject") =>
                /\ dlg'.result = "Rejected"
                /\ ~dlg'.visible
          /\ (dlg'.result = "Accepted" /\ dlg.result # "Accepted") =>
                /\ uiLog' = Append(uiLog, Log("accept", "timer", <<>>))
                /\ Scheduled(timers, "accept") = Scheduled(timers', "accept") + 1]_vars

C27_Witness ==
    /\ dlg.result = "Accepted"
    /\ HandledCount("all_completed") = 1
    /\ LogCount("accept") = 1

----------------------------------------------------------------------------
(* Specification: a caller constructs a TaskWorkerThread itself, with any   *)
(* task list, starts it and may call cancel(); no dialog method is called,  *)
(* so the emitted signals stay queued.                                      *)

InitDirect ==
    /\ dlg = NewDialog(<<>>)
    /\ workers = <<>>
    /\ uiQueue = <<>>
    /\ uipc = "idle"
    /\ timers = <<>>
    /\ uiLog = <<>>
    /\ startLog = <<>>

\* TaskWorkerThread(tasks) followed by QThread.start()
DirectStart ==
    /\ workers = <<>>
    /\ \E q \in TaskQueues : workers' = <<NewWorker(q)>>
    /\ UNCHANGED <<dlg, uiQueue, uipc, timers, uiLog, startLog>>

\* TaskWorkerThread.cancel called by the caller
DirectCancel ==
    /\ \E w \in DOMAIN workers :
          /\ ~workers[w].cancelled
          /\ workers[w].pc # "finished"
          /\ workers' = Cancel(w)
    /\ UNCHANGED <<dlg, uiQueue, uipc, timers, uiLog, startLog>>

NextDirect == DirectStart \/ WorkerStep \/ DirectCancel

SpecDirect == InitDirect /\ [][NextDirect]_vars

\* C28: a worker constructed with an empty task list emits no task_started,
\* task_completed or error and calls no operation; what it emits is
\* progress(0, 0) followed by one all_completed with an empty results list,
\* and a run that has returned has emitted both, cancelled or not.
C28_EmptyQueueRun ==
    \A w \in DOMAIN workers :
        workers[w].tasks = <<>> =>
            LET whole == <<Ev("progress", 0, 0, "", <<>>),
                           Ev("all_completed", 0, 0, "", <<>>)>>
            IN  /\ IsPrefix(workers[w].trace, whole)
                /\ workers[w].results = <<>>
                /\ workers[w].pc # "except"
                /\ RunReturned(w) => workers[w].trace = whole

C28_Witness ==
    \E w \in DOMAIN workers :
        /\ workers[w].tasks = <<>>
        /\ workers[w].cancelled
        /\ workers[w].pc = "finished"
        /\ Count(workers[w].trace, "all_completed") = 1
        /\ dlg.worker_thread = 0

----------------------------------------------------------------------------
(* loading.py: the single-operation Worker and the MainWindow that uses it. *)
(* In this specification dlg holds the MainWindow with its modal dialog,    *)
(* workers the loading.Worker threads, uiQueue the signals they posted.     *)

\* the number of operations the user starts from the MainWindow
MaxRuns == 2

\* MainWindow.long_running_operation, quick_operation and error_operation
LoadingOps ==
    [long_running_operation |->
        [raises |-> FALSE, text |-> "Operation completed successfully! Result: 42"],
     quick_operation |->
        [raises |-> FALSE, text |-> "Quick operation done!"],
     error_operation |->
        [raises |-> TRUE, text |-> "Something went wrong in the operation!"]]

\* Worker.__init__
NewLoadingWorker(operation) ==
    [operation |-> operation, pc |-> "call", running |-> TRUE,
     trace |-> <<>>]        \* history: the signals run() emitted

\* MainWindow.__init__: the result label and no dialog
NewMainWindow ==
    [result_label |-> "Click a button to start an operation",
     result_style |-> "", dialog |-> "", visible |-> FALSE, worker |-> 0]

InitLoading ==
    /\ dlg = NewMainWindow
    /\ workers = <<>>
    /\ uiQueue = <<>>
    /\ uipc = "idle"
    /\ timers = <<>>
    /\ uiLog = <<>>
    /\ startLog = <<>>

\* the body shared by the four run_* methods: create the dialog and the
\* worker, connect, worker.start(), dialog.exec()
StartOperation(dialog, operation) ==
    /\ uipc = "idle"
    /\ Len(workers) < MaxRuns
    /\ workers' = Append(workers, NewLoadingWorker(operation))
    /\ dlg' = [dlg EXCEPT !.dialog = dialog, !.visible = TRUE,
                          !.worker = Len(workers) + 1]
    /\ uipc' = "exec"
    /\ startLog' = Append(startLog, [dialog |-> dialog, operation |-> operation])
    /\ UNCHANGED <<uiQueue, timers, uiLog>>

\* MainWindow.run_with_progress_loading
RunWithProgressLoading == StartOperation("Processing data...", "long_running_operation")

\* MainWindow.run_with_spinner_loading
RunWithSpinnerLoading == StartOperation("Working on it...", "long_running_operation")

\* MainWindow.run_quick_operation
RunQuickOperation == StartOperation("Quick processing...", "quick_operation")

\* MainWindow.run_with_error
RunWithError == StartOperation("Attempting operation...", "error_operation")

\* Worker.run: result = self.operation(...) returns
WorkerOperationReturns(w) ==
    /\ workers[w].pc = "call"
    /\ ~LoadingOps[workers[w].operation].raises
    /\ workers' = [workers EXCEPT ![w].pc = "emit_result"]
    /\ UNCHANGED <<dlg, uiQueue, uipc, timers, uiLog, startLog>>

\* Worker.run: self.operation(...) raises an Exception
WorkerOperationRaises(w) ==
    /\ workers[w].pc = "call"
    /\ LoadingOps[workers[w].operation].raises
    /\ workers' = [workers EXCEPT ![w].pc = "emit_error"]
    /\ UNCHANGED <<dlg, uiQueue, uipc, timers, uiLog, startLog>>

\* Worker.run: self.result.emit(result)
WorkerEmitResult(w) ==
    /\ workers[w].pc = "emit_result"
    /\ LET e == Ev("result", 0, 0, LoadingOps[workers[w].operation].text, <<>>)
       IN  /\ uiQueue' = Posted(w, e)
           /\ workers' = [workers EXCEPT ![w].pc = "finally",
                                         ![w].trace = Append(@, e)]
    /\ UNCHANGED <<dlg, uipc, timers, uiLog, startLog>>

\* as WorkerEmitError, with finished emitted in the try block only
WorkerEmitError_NoFinally(w) ==
    /\ workers[w].pc = "emit_error"
    /\ LET e == Ev("error", 0, 0, LoadingOps[workers[w].operation].text, <<>>)
       IN  /\ uiQueue' = Posted(w, e)
           /\ workers' = [workers EXCEPT ![w].pc = "returned",
                                         ![w].trace = Append(@, e)]
    /\ UNCHANGED <<dlg, uipc, timers, uiLog, startLog>>

\* Worker.run: except Exception as e: self.error.emit(str(e))
WorkerEmitError(w) ==
    /\ workers[w].pc = "emit_error"
    /\ LET e == Ev("error", 0, 0, LoadingOps[workers[w].operation].text, <<>>)
       IN  /\ uiQueue' = Posted(w, e)
           /\ workers' = [workers EXCEPT ![w].pc = "finally",
                                         ![w].trace = Append(@, e)]
    /\ UNCHANGED <<dlg, uipc, timers, uiLog, startLog>>

\* Worker.run: finally: self.finished.emit(); run() returns
WorkerEmitFinished(w) ==
    /\ workers[w].pc = "finally"
    /\ LET e == Ev("finished", 0, 0, "", <<>>)
       IN  /\ uiQueue' = Posted(w, e)
           /\ workers' = [workers EXCEPT ![w].pc = "returned",
                                         ![w].trace = Append(@, e)]
    /\ UNCHANGED <<dlg, uipc, timers, uiLog, startLog>>

\* QThread: the thread stops after run() returned
WorkerThreadStops(w) ==
    /\ workers[w].pc = "returned"
    /\ workers[w].running
    /\ workers' = [workers EXCEPT ![w].running = FALSE]
    /\ UNCHANGED <<dlg, uiQueue, uipc, timers, uiLog, startLog>>

\* the event loop inside dialog.exec() takes the next posted signal
ExecPending(sig) ==
    /\ uipc = "exec"
    /\ uiQueue # <<>>
    /\ Head(uiQueue).ev.sig = sig

\* MainWindow.on_operation_complete
OnOperationComplete ==
    /\ ExecPending("result")
    /\ dlg' = [dlg EXCEPT !.result_label = "Success: " \o Head(uiQueue).ev.text,
                          !.result_style = "green"]
    /\ uiLog' = Append(uiLog, Log("on_operation_complete", Head(uiQueue).ev.text, <<>>))
    /\ uiQueue' = Tail(uiQueue)
    /\ UNCHANGED <<workers, uipc, timers, startLog>>

\* MainWindow.on_operation_error
OnOperationError ==
    /\ ExecPending("error")
    /\ dlg' = [dlg EXCEPT !.result_label = "Error: " \o Head(uiQueue).ev.text,
                          !.result_style = "red"]
    /\ uiLog' = Append(uiLog, Log("on_operation_error", Head(uiQueue).ev.text, <<>>))
    /\ uiQueue' = Tail(uiQueue)
    /\ UNCHANGED <<workers, uipc, timers, startLog>>

\* worker.finished -> dialog.close: the dialog closes and exec() returns
DialogClose ==
    /\ ExecPending("finished")
    /\ dlg' = [dlg EXCEPT !.visible = FALSE]
    /\ uiLog' = Append(uiLog, Log("close", "", <<>>))
    /\ uiQueue' = Tail(uiQueue)
    /\ uipc' = "idle"
    /\ UNCHANGED <<workers, timers, startLog>>

NextLoading ==
    \/ RunWithProgressLoading
    \/ RunWithSpinnerLoading
    \/ RunQuickOperation
    \/ RunWithError
    \/ \E w \in DOMAIN workers :
          \/ WorkerOperationReturns(w)
          \/ WorkerOperationRaises(w)
          \/ WorkerEmitResult(w)
          \/ WorkerEmitError(w)
          \/ WorkerEmitFinished(w)
          \/ WorkerThreadStops(w)
    \/ OnOperationComplete
    \/ OnOperationError
    \/ DialogClose

SpecLoading == InitLoading /\ [][NextLoading]_vars

\* what one run of Worker.run emits for an operation
WorkerRunTrace(operation) ==
    <<Ev(IF LoadingOps[operation].raises THEN "error" ELSE "result",
         0, 0, LoadingOps[operation].text, <<>>),
      Ev("finished", 0, 0, "", <<>>)>>

\* C29: a run of loading.Worker emits one event of result (with the returned
\* value, when the operation returns) or error (with the exception text,
\* when it raises), never both, and after it finished, once, on both paths.
C29_OneOutcomeThenFinished ==
    \A w \in DOMAIN workers :
        LET tr == workers[w].trace
        IN  /\ IsPrefix(tr, WorkerRunTrace(workers[w].operation))
            /\ Count(tr, "result") + Count(tr, "error") <= 1
            /\ Count(tr, "finished") = 1 <=> workers[w].pc = "returned"
            /\ workers[w].pc = "returned" => tr = WorkerRunTrace(workers[w].operation)

C29_Witness ==
    \E v, w \in DOMAIN workers :
        /\ workers[v].pc = "returned"
        /\ workers[w].pc = "returned"
        /\ Count(workers[v].trace, "result") = 1
        /\ Count(workers[w].trace, "error") = 1
        /\ Count(workers[w].trace, "finished") = 1

====
